---- MODULE Spec2Model ----
(***************************************************************************)
(* Maximal-clique enumeration (Bron-Kerbosch, tests/maximal_cliques.rs)    *)
(* and the node-filtered graph adaptor (src/visit/filter.rs) of petgraph.  *)
(*                                                                         *)
(* The graph is a node count, a directedness flag and an edge list.  The   *)
(* enumeration is modelled as an explicit stack of activation records of   *)
(* bron_kerbosch_ref, one action per code block of the function.  The      *)
(* adaptor is modelled by its iterator, one action per call of next().     *)
(***************************************************************************)
EXTENDS Integers, Sequences, FiniteSets

VARIABLES
    node_count,   \* number of nodes of the base graph; NodeIds are 0..node_count-1
    directed,     \* GraphProp::is_directed of the base graph
    edges,        \* edge list of the base graph, a sequence of <<source, target>>
    incl,         \* the FilterNode predicate F, as the set of nodes it includes
    view,         \* TRUE: the graph G handed to the algorithm is &Filtered(base, F)
    pc,           \* "idle" | "run" | "done": position in maximal_cliques_ref
    adj_mat,      \* the adjacency matrix built once by maximal_cliques_ref
    stack,        \* activation records of bron_kerbosch_ref, outermost first
    result,       \* the Vec returned by maximal_cliques_ref
    fpc,          \* "idle" | "iter" | "done": life of one FilteredNeighbors iterator
    call,         \* which adaptor method created the iterator, and its arguments
    it,           \* the FilteredNeighbors struct: include_source and iter
    out           \* the items the iterator has yielded so far

vars == <<node_count, directed, edges, incl, view, pc, adj_mat, stack, result,
          fpc, call, it, out>>

graph_vars == <<node_count, directed, edges, incl, view>>
bk_vars == <<pc, adj_mat, stack, result>>
filter_vars == <<fpc, call, it, out>>

----------------------------------------------------------------------------
(* Bounds of the model *)

MaxNodes == 3
MaxLinks == 3
MaxViewNodes == 3
MaxEdges == 2

----------------------------------------------------------------------------
(* The base graph: an external collaborator, given by its capability contract *)

NoNode == -1

Nodes == 0 .. (node_count - 1)

Range(s) == { s[i] : i \in DOMAIN s }

Direction == {"Outgoing", "Incoming"}

\* IntoNodeIdentifiers of the base graph: all node ids, in index order
base_node_identifiers == [i \in 1 .. node_count |-> i - 1]

\* IntoNeighborsDirected of the base graph: for a directed graph the targets
\* (Outgoing) or sources (Incoming) of the edges at n; for an undirected graph
\* every node incident to n, whatever the direction
base_neighbors_directed(n, dir) ==
    LET RECURSIVE walk(_)
        walk(i) ==
            IF i > Len(edges) THEN <<>>
            ELSE LET e == edges[i]
                     hit == IF directed
                            THEN IF dir = "Outgoing"
                                 THEN IF e[1] = n THEN <<e[2]>> ELSE <<>>
                                 ELSE IF e[2] = n THEN <<e[1]>> ELSE <<>>
                            ELSE IF e[1] = n THEN <<e[2]>>
                                 ELSE IF e[2] = n THEN <<e[1]>> ELSE <<>>
                 IN  hit \o walk(i + 1)
    IN  walk(1)

\* IntoNeighbors of the base graph: successors (directed), incident nodes (undirected)
base_neighbors(n) == base_neighbors_directed(n, "Outgoing")

----------------------------------------------------------------------------
(* src/visit/filter.rs *)

\* FilterNode::include_node for the set-membership and closure strategies
include_node(n) == n \in incl

None == [some |-> FALSE, item |-> NoNode]
Some(n) == [some |-> TRUE, item |-> n]

\* FilteredNeighbors { include_source, iter, f }
FilteredNeighbors(include_source, iter) ==
    [include_source |-> include_source, iter |-> iter]

\* A filter adaptor whose closure accepts every target
filter_next_accept_all(iter) ==
    IF iter = <<>> THEN [ret |-> None, iter |-> <<>>]
    ELSE [ret |-> Some(Head(iter)), iter |-> Tail(iter)]

\* (&mut self.iter).filter(|&target| f.include_node(target)).next():
\* advance the base iterator to the first included item, consuming what it skips
filter_next(iter) ==
    LET RECURSIVE scan(_)
        scan(s) ==
            IF s = <<>> THEN [ret |-> None, iter |-> <<>>]
            ELSE IF include_node(Head(s))
                 THEN [ret |-> Some(Head(s)), iter |-> Tail(s)]
                 ELSE scan(Tail(s))
    IN  scan(iter)

\* A next() that yields the items of excluded sources as well
next_ignoring_source(self) ==
    LET r == filter_next(self.iter)
    IN  [ret |-> r.ret, self |-> [self EXCEPT !.iter = r.iter]]

\* FilteredNeighbors::next
FilteredNeighbors_next(self) ==
    IF ~self.include_source
    THEN [ret |-> None, self |-> self]
    ELSE LET r == filter_next(self.iter)
         IN  [ret |-> r.ret, self |-> [self EXCEPT !.iter = r.iter]]

\* <&Filtered as IntoNeighbors>::neighbors
Filtered_neighbors(n) ==
    FilteredNeighbors(include_node(n), base_neighbors(n))

\* <&Filtered as IntoNeighborsDirected>::neighbors_directed
Filtered_neighbors_directed(n, dir) ==
    FilteredNeighbors(include_node(n), base_neighbors_directed(n, dir))

\* <&Filtered as IntoNodeIdentifiers>::node_identifiers
Filtered_node_identifiers ==
    FilteredNeighbors(TRUE, base_node_identifiers)

\* Running an iterator to its end (while let Some(u) = walker.next(), collect())
collect(iter0) ==
    LET RECURSIVE drain(_)
        drain(self) ==
            LET r == FilteredNeighbors_next(self)
            IN  IF r.ret.some THEN <<r.ret.item>> \o drain(r.self) ELSE <<>>
    IN  drain(iter0)

----------------------------------------------------------------------------
(* The graph G the enumeration runs over: the base graph or &Filtered(base, F) *)

\* g.node_identifiers()
node_identifiers ==
    IF view THEN collect(Filtered_node_identifiers) ELSE base_node_identifiers

\* g.neighbors(v)
neighbors(v) ==
    IF view THEN collect(Filtered_neighbors(v)) ELSE base_neighbors(v)

\* GetAdjacencyMatrix::adjacency_matrix: for every u of node_identifiers() and
\* every v of neighbors(u), bit (u, v) is set; nothing is symmetrized
adjacency_matrix ==
    { e \in Nodes \X Nodes : /\ e[1] \in Range(node_identifiers)
                             /\ e[2] \in Range(neighbors(e[1])) }

\* GetAdjacencyMatrix::is_adjacent
is_adjacent(m, u, v) == <<u, v>> \in m

----------------------------------------------------------------------------
(* tests/maximal_cliques.rs: bron_kerbosch_ref and maximal_cliques_ref *)

\* One activation record of bron_kerbosch_ref.  at = "entry": at line 31;
\* "loop": at the head of the while loop after an iteration; "call": inside the
\* recursive call of line 59, v being the candidate popped from todo.
Frame(r, p, x) ==
    [r |-> r, p |-> p, x |-> x, todo |-> {}, v |-> NoNode,
     cliques |-> <<>>, at |-> "entry"]

Top == stack[Len(stack)]

\* line 32 without the test of x
is_leaf_ignoring_x(p, x) == p = {}

\* line 32 with an extra test that an empty r fails
is_leaf_nonempty_r(p, x) == p = {} /\ x = {} /\ Top.r # {}

\* line 32: p.is_empty() && x.is_empty()
is_leaf(p, x) == p = {} /\ x = {}

\* line 38 left out
remove_p_skipped(p, v) == p

\* line 38: p.remove(&v)
remove_p(p, v) == p \ {v}

\* lines 39-40: next_r = r.clone(); next_r.insert(v)
next_r(r, v) == r \cup {v}

\* lines 42-48 without the oracle test of line 45
neighbor_set_unchecked(v) == Range(neighbors(v))

\* lines 42-48: the neighbors u of v with is_adjacent(adj_mat, u, v)
neighbor_set(v) ==
    { u \in Range(neighbors(v)) : is_adjacent(adj_mat, u, v) }

\* lines 50-53 without the intersection
next_p_all(p, nb) == p

\* lines 50-53: p.intersection(&neighbors)
next_p(p, nb) == p \cap nb

\* lines 54-57 without the intersection
next_x_all(x, nb) == x

\* lines 54-57 taking the neighbors instead of the intersection
next_x_neighbors(x, nb) == nb

\* lines 54-57: x.intersection(&neighbors)
next_x(x, nb) == x \cap nb

\* line 61: x.insert(v)
insert_x(x, v) == x \cup {v}

\* The return of one call: the outermost call returns to maximal_cliques_ref
\* (line 77); any other returns into line 59 of its caller, which extends its
\* cliques and then runs line 61.
Return(cs) ==
    IF Len(stack) = 1
    THEN /\ result' = cs
         /\ stack' = <<>>
         /\ pc' = "done"
    ELSE LET k == Len(stack) - 1
             caller == stack[k]
         IN  /\ stack' = [SubSeq(stack, 1, k) EXCEPT ![k] =
                    [caller EXCEPT !.cliques = caller.cliques \o cs,
                                   !.x = insert_x(caller.x, caller.v),
                                   !.v = NoNode,
                                   !.at = "loop"]]
             /\ UNCHANGED <<result, pc>>

\* maximal_cliques_ref, lines 75-77: build the matrix, collect P, make the first call
maximal_cliques_ref ==
    /\ pc = "idle"
    /\ adj_mat' = adjacency_matrix
    /\ stack' = <<Frame({}, Range(node_identifiers), {})>>
    /\ pc' = "run"
    /\ UNCHANGED <<result, graph_vars, filter_vars>>

\* lines 31-35: P and X are empty, return [r]
Emit ==
    /\ pc = "run"
    /\ Top.at = "entry"
    /\ is_leaf(Top.p, Top.x)
    /\ Return(<<Top.r>>)
    /\ UNCHANGED <<adj_mat, graph_vars, filter_vars>>

\* line 36: todo = p.iter().cloned().collect(), run by a call that passed line 32
todo_of(f) == IF f.at = "entry" THEN f.p ELSE f.todo

\* The call on top of the stack is at the head of the while loop of line 37
AtLoopHead ==
    \/ Top.at = "loop"
    \/ Top.at = "entry" /\ ~is_leaf(Top.p, Top.x)

\* lines 36-59: pop some v (the order of a HashSet's iteration is arbitrary),
\* remove it from p, build next_r, neighbors, next_p, next_x and make the call
Branch ==
    /\ pc = "run"
    /\ AtLoopHead
    /\ \E v \in todo_of(Top) :
         LET p1 == remove_p(Top.p, v)
             nb == neighbor_set(v)
             me == [Top EXCEPT !.todo = todo_of(Top) \ {v}, !.p = p1,
                               !.v = v, !.at = "call"]
             callee == Frame(next_r(Top.r, v), next_p(p1, nb), next_x(Top.x, nb))
         IN  stack' = Append([stack EXCEPT ![Len(stack)] = me], callee)
    /\ UNCHANGED <<pc, result, adj_mat, graph_vars, filter_vars>>

\* lines 36-37 and 63: todo is exhausted, return cliques
LoopEnd ==
    /\ pc = "run"
    /\ AtLoopHead
    /\ todo_of(Top) = {}
    /\ Return(Top.cliques)
    /\ UNCHANGED <<adj_mat, graph_vars, filter_vars>>

NextBK == maximal_cliques_ref \/ Emit \/ Branch \/ LoopEnd

----------------------------------------------------------------------------
(* Graphs *)

\* The k-th pair of Nodes \X Nodes in row-major order, k in 0 .. n*n-1
PairAt(n, k) == <<k \div n, k % n>>

\* The edge list that holds every pair of S, in row-major order
EdgeList(n, S) ==
    LET RECURSIVE build(_)
        build(k) ==
            IF k >= n * n THEN <<>>
            ELSE (IF PairAt(n, k) \in S
                  THEN <<PairAt(n, k)>>
                  ELSE <<>>) \o build(k + 1)
    IN  build(0)

\* Every sequence over S of length at most n
SeqUpTo(S, n) == UNION { [1 .. k -> S] : k \in 0 .. n }

InitIdle ==
    /\ pc = "idle"
    /\ adj_mat = {}
    /\ stack = <<>>
    /\ result = <<>>
    /\ fpc = "idle"
    /\ call = [op |-> "none", n |-> NoNode, dir |-> "Outgoing"]
    /\ it = FilteredNeighbors(FALSE, <<>>)
    /\ out = <<>>

\* The unordered pair of nodes (or the single node, for a self-loop) an edge joins
Joined(e) == {e[1], e[2]}

\* Every graph of at most MaxNodes nodes in which at most MaxLinks pairs of nodes
\* (a node and itself included) are joined: a pair is joined by an edge one way,
\* the other way, or both; a self-loop joins a node to itself.  In an undirected
\* graph <<a, b>> and <<b, a>> are two parallel edges between a and b.
InitGraph ==
    /\ node_count \in 0 .. MaxNodes
    /\ directed \in BOOLEAN
    /\ \E S \in SUBSET (Nodes \X Nodes) :
          /\ Cardinality({ Joined(e) : e \in S }) <= MaxLinks
          /\ edges = EdgeList(node_count, S)

Init ==
    /\ InitGraph
    /\ view = FALSE
    /\ incl = Nodes
    /\ InitIdle

Spec == Init /\ [][NextBK]_vars

InitView ==
    /\ InitGraph
    /\ view = TRUE
    /\ incl \in SUBSET Nodes
    /\ InitIdle

SpecView == InitView /\ [][NextBK]_vars

----------------------------------------------------------------------------
(* The adaptor on its own: one iterator of &Filtered(base, F), driven by next() *)

\* g.neighbors(n) on the adaptor
Call_neighbors ==
    /\ fpc = "idle"
    /\ \E n \in Nodes :
          /\ it' = Filtered_neighbors(n)
          /\ call' = [op |-> "neighbors", n |-> n, dir |-> "Outgoing"]
    /\ fpc' = "iter"
    /\ out' = <<>>
    /\ UNCHANGED <<graph_vars, bk_vars>>

\* g.neighbors_directed(n, dir) on the adaptor
Call_neighbors_directed ==
    /\ fpc = "idle"
    /\ \E n \in Nodes, dir \in Direction :
          /\ it' = Filtered_neighbors_directed(n, dir)
          /\ call' = [op |-> "neighbors_directed", n |-> n, dir |-> dir]
    /\ fpc' = "iter"
    /\ out' = <<>>
    /\ UNCHANGED <<graph_vars, bk_vars>>

\* g.node_identifiers() on the adaptor
Call_node_identifiers ==
    /\ fpc = "idle"
    /\ it' = Filtered_node_identifiers
    /\ call' = [op |-> "node_identifiers", n |-> NoNode, dir |-> "Outgoing"]
    /\ fpc' = "iter"
    /\ out' = <<>>
    /\ UNCHANGED <<graph_vars, bk_vars>>

\* One call of next() by the consumer; None ends the iteration
Iter_next ==
    /\ fpc = "iter"
    /\ LET r == FilteredNeighbors_next(it)
       IN  /\ it' = r.self
           /\ IF r.ret.some
              THEN out' = Append(out, r.ret.item) /\ fpc' = "iter"
              ELSE out' = out /\ fpc' = "done"
    /\ UNCHANGED <<call, graph_vars, bk_vars>>

NextFiltered ==
    Call_neighbors \/ Call_neighbors_directed \/ Call_node_identifiers \/ Iter_next

\* Every base graph of at most MaxViewNodes nodes whose edge list is any
\* sequence of at most MaxEdges pairs, and every predicate over its nodes
InitFiltered ==
    /\ node_count \in 0 .. MaxViewNodes
    /\ directed \in BOOLEAN
    /\ edges \in SeqUpTo(Nodes \X Nodes, MaxEdges)
    /\ incl \in SUBSET Nodes
    /\ view = TRUE
    /\ InitIdle

SpecFiltered == InitFiltered /\ [][NextFiltered]_vars

----------------------------------------------------------------------------
(* What the claims speak about, defined on the edge list alone *)

\* There is an edge from u to v (in an undirected graph: between u and v)
HasEdge(u, v) ==
    \E i \in DOMAIN edges :
        \/ edges[i] = <<u, v>>
        \/ ~directed /\ edges[i] = <<v, u>>

Mutual(u, v) == HasEdge(u, v) /\ HasEdge(v, u)

IsClique(C) == \A u \in C : \A v \in C : u # v => Mutual(u, v)

\* Naive brute force: the inclusion-maximal mutually adjacent subsets of V
MaximalCliques(V) ==
    { C \in SUBSET V : /\ IsClique(C)
                       /\ \A v \in V \ C : ~IsClique(C \cup {v}) }

\* v has no mutual edge with any other node
NoMutualEdge(v) == \A u \in Nodes \ {v} : ~Mutual(u, v)

\* The cliques emitted so far, in the order of emission: the final Vec, or the
\* cliques Vecs of the calls in progress, outermost first
EmittedSeq ==
    LET RECURSIVE cat(_)
        cat(i) == IF i > Len(stack) THEN <<>> ELSE stack[i].cliques \o cat(i + 1)
    IN  IF pc = "done" THEN result ELSE cat(1)

Emitted == Range(EmittedSeq)

NoDuplicates(s) == \A i \in DOMAIN s : \A j \in DOMAIN s : i # j => s[i] # s[j]

----------------------------------------------------------------------------
(* Claims *)

\* C1: when the enumeration started with R = {}, P = all nodes, X = {} has
\* returned, whatever the order the candidates were popped in, the result holds
\* exactly the maximal cliques found by brute force: the same sets and as many
\* entries as there are maximal cliques.
C1_MatchesBruteForce ==
    pc = "done" =>
        /\ Range(result) = MaximalCliques(Nodes)
        /\ Len(result) = Cardinality(MaximalCliques(Nodes))

C1_Witness ==
    /\ pc = "done"
    /\ Len(result) >= 2
    /\ \E C \in Range(result) : Cardinality(C) >= 2
    /\ \E u \in Nodes : HasEdge(u, u)

\* C2: any two distinct members u, v of an emitted clique are adjacent in the
\* oracle in both directions, so two nodes joined by a one-way edge only are
\* never in the same clique.
C2_PairwiseMutual ==
    \A C \in Emitted : \A u \in C : \A v \in C :
        u # v => /\ is_adjacent(adj_mat, u, v)
                 /\ is_adjacent(adj_mat, v, u)
                 /\ HasEdge(u, v) /\ HasEdge(v, u)

C2_Witness ==
    /\ pc = "done"
    /\ directed
    /\ \E u \in Nodes : \E v \in Nodes \ {u} : HasEdge(u, v) /\ ~HasEdge(v, u)
    /\ \E C \in Range(result) : Cardinality(C) >= 2

\* C3: every emitted clique is maximal: each node outside it fails to be
\* mutually adjacent to some member; and a set is emitted only by a call whose P
\* and X are both empty, the set being that call's R.
C3_Maximal ==
    [][ /\ \A C \in Emitted' : \A v \in Nodes \ C : \E c \in C : ~Mutual(v, c)
        /\ Len(EmittedSeq') > Len(EmittedSeq) =>
              /\ Top.p = {} /\ Top.x = {}
              /\ EmittedSeq' = Append(EmittedSeq, Top.r) ]_vars

C3_Witness ==
    /\ pc = "run"
    /\ Len(stack) >= 2
    /\ Len(EmittedSeq) >= 1
    /\ \E i \in DOMAIN stack : stack[i].x # {}

\* C4: no two emitted cliques are equal as sets, so the result has as many
\* entries as it has distinct sets.
C4_NoDuplicates ==
    /\ NoDuplicates(EmittedSeq)
    /\ Len(EmittedSeq) = Cardinality(Emitted)

C4_Witness ==
    /\ pc = "done"
    /\ \E C \in Range(result) : Cardinality(C) = 3

C6_Singletons ==
    pc = "done" =>
        \A v \in Nodes :
            NoMutualEdge(v) =>
                /\ {v} \in Range(result)
                /\ \A C \in Range(result) : v \in C => C = {v}

C6_Witness ==
    /\ pc = "done"
    /\ directed
    /\ \E v \in Nodes :
          /\ NoMutualEdge(v)
          /\ HasEdge(v, v)
          /\ \E u \in Nodes \ {v} : HasEdge(u, v) \/ HasEdge(v, u)
          /\ {v} \in Range(result)
    /\ \E C \in Range(result) : Cardinality(C) = 2

\* A step that makes a recursive call (line 59)
IsCall == Len(stack) >= 1 /\ Len(stack') = Len(stack) + 1

\* An upper bound on the steps a call still takes whose todo holds k candidates:
\* one to return, and for each candidate the recursive call and all it does
RECURSIVE StepsLeft(_)
StepsLeft(k) == IF k = 0 THEN 1 ELSE 1 + k * (1 + StepsLeft(k - 1))

\* A variant of the enumeration: the steps the calls in progress still take
Variant ==
    LET RECURSIVE sum(_)
        sum(i) == IF i > Len(stack) THEN 0
                  ELSE StepsLeft(Cardinality(todo_of(stack[i]))) + sum(i + 1)
    IN  CASE pc = "idle" -> 1 + StepsLeft(node_count)
          [] pc = "run" -> sum(1)
          [] pc = "done" -> 0

\* C8: the enumeration terminates: until it has returned some step is possible,
\* and every step lowers a variant that is a natural number; at every recursive
\* call the P' handed to the callee is a strict subset of the P the caller took
\* the candidate v from and does not hold v, self-loop or not, and the recursion
\* is never deeper than the number of nodes.
C8_Terminates ==
    /\ [](pc # "done" => ENABLED NextBK)
    /\ [][ /\ Variant' < Variant
           /\ Variant' >= 0
           /\ IsCall =>
                LET callee == stack'[Len(stack')]
                    v == stack'[Len(stack)].v
                IN  /\ callee.p \subseteq Top.p
                    /\ callee.p # Top.p
                    /\ v \in Top.p
                    /\ v \notin callee.p
                    /\ Len(stack') - 1 <= node_count ]_vars

C8_Witness ==
    /\ pc = "run"
    /\ node_count >= 2
    /\ Len(stack) - 1 = node_count
    /\ \E i \in DOMAIN stack : stack[i].at = "call" /\ HasEdge(stack[i].v, stack[i].v)

\* R, P and X of one call are pairwise disjoint; the candidate in flight is in
\* none of them
FrameDisjoint(f) ==
    /\ f.r \cap f.p = {}
    /\ f.r \cap f.x = {}
    /\ f.p \cap f.x = {}
    /\ f.at = "call" => f.v \notin (f.r \cup f.p \cup f.x)

Included(n) == n \in incl

\* The base sequence behind the adaptor call in progress
BaseSeqOfCall ==
    CASE call.op = "node_identifiers" -> base_node_identifiers
      [] call.op = "neighbors" -> base_neighbors(call.n)
      [] call.op = "neighbors_directed" -> base_neighbors_directed(call.n, call.dir)
      [] OTHER -> <<>>

\* What the claim says the adaptor call in progress yields
ExpectedOfCall ==
    IF call.op # "node_identifiers" /\ ~Included(call.n)
    THEN <<>>
    ELSE SelectSeq(BaseSeqOfCall, Included)

IsPrefix(s, t) == Len(s) <= Len(t) /\ s = SubSeq(t, 1, Len(s))

\* C7: node_identifiers() of the view yields the included base nodes in base
\* order; neighbors(v) and neighbors_directed(v, dir) yield the included base
\* neighbors of an included v in base order, and nothing for an excluded v.
C7_FilteredView ==
    /\ fpc = "iter" => IsPrefix(out, ExpectedOfCall)
    /\ fpc = "done" => out = ExpectedOfCall

C7_Witness ==
    /\ fpc = "done"
    /\ call.op = "neighbors_directed"
    /\ Included(call.n)
    /\ Len(BaseSeqOfCall) = 2
    /\ ~Included(BaseSeqOfCall[1])
    /\ out = << BaseSeqOfCall[2] >>

\* C10: the enumeration run over the view returns exactly the maximal cliques of
\* the subgraph induced by the included nodes, each once: no result clique holds
\* an excluded node, and a predicate that excludes every node gives [ {} ].
C10_ViewInduced ==
    (view /\ pc = "done") =>
        /\ Range(result) = MaximalCliques(incl)
        /\ Len(result) = Cardinality(MaximalCliques(incl))
        /\ \A C \in Range(result) : C \subseteq incl
        /\ incl = {} => result = << {} >>

C10_Witness ==
    /\ view
    /\ pc = "done"
    /\ \E v \in Nodes \ incl : \E u \in incl : \E w \in incl \ {u} :
          /\ Mutual(u, v) /\ Mutual(w, v) /\ Mutual(u, w)
          /\ {u, w} \in Range(result)

====
